---- MODULE Spec2Model ----
(***************************************************************************)
(* Model of landscape/lib/amp.py: remote method calls over AMP.            *)
(*                                                                         *)
(* Two MethodCallProtocol instances, "A" and "B", are the two ends of one  *)
(* connection.  Each owns a RemoteObject (the proxy) and answers incoming  *)
(* MethodCall commands against the object of its factory.                  *)
(***************************************************************************)
EXTENDS Integers, Sequences, FiniteSets, TLC

(***************************************************************************)
(* Bounds                                                                  *)
(***************************************************************************)
MaxCalls == 2

CallIds == 1..MaxCalls

Peers == {"A", "B"}

Peer(p) == IF p = "A" THEN "B" ELSE "A"

(***************************************************************************)
(* Python values.  Every value is a record of the same shape: t is the     *)
(* runtime type, n an integer payload (the number, the string's code, the  *)
(* object's identity), s the elements of a container.                      *)
(***************************************************************************)
V(t, n, s) == [t |-> t, n |-> n, s |-> s]

PyNone == V("NoneType", 0, << >>)
PyInt(n) == V("int", n, << >>)
PyBool(b) == V("bool", IF b THEN 1 ELSE 0, << >>)
PyStr(n) == V("str", n, << >>)
PyList(s) == V("list", 0, s)
PyTuple(s) == V("tuple", 0, s)
Socket == V("socket", 0, << >>)
Instance(id) == V("instance", id, << >>)

\* Identities of the objects of the two peers.
ProtocolOf(p) == Instance(IF p = "A" THEN 1 ELSE 2)
FactoryOf(p) == Instance(IF p = "A" THEN 3 ELSE 4)
ObjectOf(p) == Instance(IF p = "A" THEN 5 ELSE 6)
RemoteOf(p) == Instance(IF p = "A" THEN 7 ELSE 8)

(***************************************************************************)
(* bpickle: dumps_table, dumps and loads.                                  *)
(***************************************************************************)
dumps_table ==
    {"bool", "int", "float", "str", "unicode",
     "tuple", "list", "dict", "NoneType"}

TypeCode(t) ==
    CASE t = "bool" -> "b"
      [] t = "int" -> "i"
      [] t = "float" -> "f"
      [] t = "str" -> "s"
      [] t = "unicode" -> "u"
      [] t = "tuple" -> "t"
      [] t = "list" -> "l"
      [] t = "dict" -> "d"
      [] t = "NoneType" -> "n"
      [] OTHER -> "?"

CodeType(c) ==
    CASE c = "b" -> "bool"
      [] c = "i" -> "int"
      [] c = "f" -> "float"
      [] c = "s" -> "str"
      [] c = "u" -> "unicode"
      [] c = "t" -> "tuple"
      [] c = "l" -> "list"
      [] c = "d" -> "dict"
      [] c = "n" -> "NoneType"
      [] OTHER -> "?"

\* dumps(obj): the encoding of obj, or a failure when the type of obj or of
\* one of its elements is not in dumps_table.
RECURSIVE dumps(_)
dumps(obj) ==
    IF obj.t \notin dumps_table
    THEN [ok |-> FALSE, c |-> "?", n |-> 0, s |-> << >>]
    ELSE LET parts == [k \in 1..Len(obj.s) |-> dumps(obj.s[k])]
         IN  IF \E k \in 1..Len(obj.s) : ~parts[k].ok
             THEN [ok |-> FALSE, c |-> "?", n |-> 0, s |-> << >>]
             ELSE [ok |-> TRUE, c |-> TypeCode(obj.t), n |-> obj.n, s |-> parts]

RECURSIVE loads(_)
loads(w) ==
    V(CodeType(w.c), w.n, [k \in 1..Len(w.s) |-> loads(w.s[k])])

(***************************************************************************)
(* MethodCallArgument                                                      *)
(***************************************************************************)
toString(inObject) == dumps(inObject)

fromString(inString) == loads(inString)

check(inObject) == inObject.t \in dumps_table

(***************************************************************************)
(* Strings that are taken apart (attribute paths) are sequences of         *)
(* one-character strings.                                                  *)
(***************************************************************************)
S_empty == << >>
S_dot == <<".">>
S_factory == <<"f", "a", "c", "t", "o", "r", "y">>
S_object == <<"o", "b", "j", "e", "c", "t">>
S_remote == <<"r", "e", "m", "o", "t", "e">>
S_factory_object == S_factory \o S_dot \o S_object
S_dot_factory_object == S_dot \o S_factory_object
S_missing == <<"x">>

\* str.split("."): the pieces between the dots, empty pieces included.
split(s) ==
    LET pieces[t \in Seq(STRING)] ==
            IF \A k \in 1..Len(t) : t[k] # "."
            THEN <<t>>
            ELSE LET d == CHOOSE k \in 1..Len(t) :
                            t[k] = "." /\ \A j \in 1..(k - 1) : t[j] # "."
                 IN  <<SubSeq(t, 1, d - 1)>> \o pieces[SubSeq(t, d + 1, Len(t))]
    IN  pieces[s]

\* getattr(obj, name) on the objects a protocol can reach: a protocol has a
\* factory and a remote, a factory has an object.
getattr(obj, name) ==
    CASE obj \in {ProtocolOf(p) : p \in Peers} /\ name = S_factory ->
            [ok |-> TRUE, val |-> Instance(obj.n + 2)]
      [] obj \in {ProtocolOf(p) : p \in Peers} /\ name = S_remote ->
            [ok |-> TRUE, val |-> Instance(obj.n + 6)]
      [] obj \in {FactoryOf(p) : p \in Peers} /\ name = S_object ->
            [ok |-> TRUE, val |-> Instance(obj.n + 2)]
      [] OTHER -> [ok |-> FALSE, val |-> PyNone]

\* attr after the loop "for name in names: attr = getattr(attr, name)";
\* the loop ends at the first getattr that raises.
follow(obj, names) ==
    LET attr[k \in 0..Len(names)] ==
            IF k = 0
            THEN [ok |-> TRUE, val |-> obj]
            ELSE IF attr[k - 1].ok
                 THEN getattr(attr[k - 1].val, names[k])
                 ELSE attr[k - 1]
    IN  attr[Len(names)]

get_nested_attr(obj, path) ==
    IF path # S_empty
    THEN follow(obj, split(path))
    ELSE [ok |-> TRUE, val |-> obj]

(***************************************************************************)
(* Method, and the methods a protocol class declares.                      *)
(***************************************************************************)
EmptyDict == [k \in {} |-> PyNone]

NoExtras == [k \in {} |-> S_empty]

Method(name, kwargs) == [name |-> name, kwargs |-> kwargs]

\* The cvar "methods" of the protocol class both peers use.
methods ==
    << Method("add", NoExtras),
       Method("echo", NoExtras),
       Method("whoami", [k \in {"caller_id"} |-> S_empty]),
       Method("ctx", [k \in {"target", "caller_id"} |->
                         IF k = "target" THEN S_factory_object ELSE S_empty]),
       Method("bad", NoExtras),
       Method("nested", NoExtras),
       Method("boom", NoExtras),
       Method("deny", NoExtras),
       Method("ghost", NoExtras),
       Method("lost", [k \in {"me"} |-> S_missing]) >>

\* MethodCallProtocol.__init__: the table of the declared methods by name;
\* a later declaration of a name replaces an earlier one.
RECURSIVE build_methods_by_name(_, _)
build_methods_by_name(table, ms) ==
    IF ms = << >>
    THEN table
    ELSE LET method == Head(ms)
             names == DOMAIN table \cup {method.name}
         IN  build_methods_by_name(
                 [n \in names |-> IF n = method.name THEN method ELSE table[n]],
                 Tail(ms))

_methods_by_name == build_methods_by_name([n \in {} |-> Method("", NoExtras)], methods)

(***************************************************************************)
(* The exposed object (factory.object): the methods it defines and what    *)
(* each does with the arguments it is called with.                         *)
(***************************************************************************)
ObjectMethods ==
    {"add", "echo", "whoami", "ctx", "bad", "nested", "boom", "deny", "secret",
     "lost"}

Returns(v) == [raised |-> FALSE, exc |-> "", msg |-> << >>, val |-> v]

Raises(e) == [raised |-> TRUE, exc |-> e, msg |-> << >>, val |-> PyNone]

RaisesWith(e, msg) == [raised |-> TRUE, exc |-> e, msg |-> msg, val |-> PyNone]

\* obj.name(*args, **kwargs)
method_func(obj, name, args, kwargs) ==
    CASE name = "add" ->
            IF /\ Len(args) = 2
               /\ DOMAIN kwargs = {}
               /\ \A k \in 1..Len(args) : args[k].t = "int"
            THEN Returns(PyInt(args[1].n + args[2].n))
            ELSE Raises("TypeError")
      [] name = "echo" ->
            IF Len(args) >= 1 THEN Returns(args[1]) ELSE Returns(PyNone)
      [] name = "whoami" ->
            IF DOMAIN kwargs = {"caller_id"} /\ args = << >>
            THEN Returns(PyBool(kwargs["caller_id"] = Instance(obj.n - 4)))
            ELSE Raises("TypeError")
      [] name = "ctx" ->
            IF {"target", "caller_id"} \subseteq DOMAIN kwargs
            THEN Returns(PyBool(kwargs["target"] = obj))
            ELSE Raises("TypeError")
      [] name = "bad" -> Returns(Socket)
      [] name = "nested" -> Returns(PyList(<<PyInt(1), Socket>>))
      [] name = "boom" -> Raises("RuntimeError")
      [] name = "deny" -> RaisesWith("MethodCallError", <<"denied">>)
      [] name = "secret" -> Returns(PyInt(42))
      [] OTHER -> Returns(PyNone)

(***************************************************************************)
(* MethodCallProtocol._call_object_method                                  *)
(***************************************************************************)
ForbiddenMessage(name) == <<"Forbidden method '", name, "'">>

NonSerializableMessage == <<"Non-serializable result">>

Present(v) == [present |-> TRUE, val |-> v]

AbsentArgs == [present |-> FALSE, val |-> << >>]

AbsentKwargs == [present |-> FALSE, val |-> EmptyDict]

\* What one run of the responder did: how it ended (kind), the names it
\* looked up on the exposed object, the invocations it made, the result or
\* the error.
Outcome(kind, msg, exc, result, looked, invoked) ==
    [kind |-> kind, msg |-> msg, exc |-> exc, result |-> result,
     looked |-> looked, invoked |-> invoked]

\* A lookup that also finds whatever the exposed object defines.
lookup_method_any(name) ==
    IF name \in DOMAIN _methods_by_name
    THEN [found |-> TRUE, method |-> _methods_by_name[name]]
    ELSE [found |-> name \in ObjectMethods, method |-> Method(name, NoExtras)]

\* self._methods_by_name.get(name, None)
lookup_method(name) ==
    IF name \in DOMAIN _methods_by_name
    THEN [found |-> TRUE, method |-> _methods_by_name[name]]
    ELSE [found |-> FALSE, method |-> Method("", NoExtras)]

\* method_args: starts empty, extended by args when args is true.
assemble_args(args) ==
    IF args.present /\ args.val # << >> THEN args.val ELSE << >>

\* The extras set first and the caller's kwargs applied over them.
assemble_kwargs_caller_wins(self, method, kwargs) ==
    LET supplied == IF kwargs.present /\ DOMAIN kwargs.val # {}
                    THEN kwargs.val ELSE EmptyDict
        keys == DOMAIN supplied \cup DOMAIN method.kwargs
    IN  [key \in keys |->
            IF key \in DOMAIN supplied
            THEN supplied[key]
            ELSE get_nested_attr(self, method.kwargs[key]).val]

\* The extras resolved against one protocol kept for all connections.
assemble_kwargs_shared(self, method, kwargs) ==
    LET supplied == IF kwargs.present /\ DOMAIN kwargs.val # {}
                    THEN kwargs.val ELSE EmptyDict
        keys == DOMAIN supplied \cup DOMAIN method.kwargs
    IN  [key \in keys |->
            IF key \in DOMAIN method.kwargs
            THEN get_nested_attr(ProtocolOf("A"), method.kwargs[key]).val
            ELSE supplied[key]]

\* The extras set only inside the branch taken when kwargs is true.
assemble_kwargs_with_kwargs_only(self, method, kwargs) ==
    IF kwargs.present /\ DOMAIN kwargs.val # {}
    THEN [key \in DOMAIN kwargs.val \cup DOMAIN method.kwargs |->
             IF key \in DOMAIN method.kwargs
             THEN get_nested_attr(self, method.kwargs[key]).val
             ELSE kwargs.val[key]]
    ELSE EmptyDict

\* method_kwargs: starts empty, updated by kwargs when kwargs is true, then
\* every extra key of the method is set to the attribute its path names.
assemble_kwargs(self, method, kwargs) ==
    LET supplied == IF kwargs.present /\ DOMAIN kwargs.val # {}
                    THEN kwargs.val ELSE EmptyDict
        keys == DOMAIN supplied \cup DOMAIN method.kwargs
    IN  [key \in keys |->
            IF key \in DOMAIN method.kwargs
            THEN get_nested_attr(self, method.kwargs[key]).val
            ELSE supplied[key]]

\* The result returned without the check.
result_accepted_unchecked(result) == TRUE

\* if not MethodCallArgument.check(result): raise
result_accepted(result) == check(result)

\* The method called a second time where its result is checked.
invocations_repeated(call) == <<call, call>>

\* result = getattr(self.factory.object, name)(*method_args, **method_kwargs):
\* the one place where the method is called.
invocations(call) == <<call>>

\* Every exception of the method caught and raised again as MethodCallError.
propagate_translated(ran, name, call) ==
    Outcome("MethodCallError", ran.msg, "MethodCallError", PyNone, <<name>>,
            invocations(call))

\* The method is called outside any try block: what it raises leaves the
\* responder as it is.
propagate(ran, name, call) ==
    Outcome("raise", ran.msg, ran.exc, PyNone, <<name>>, invocations(call))

_call_object_method(p, name, args, kwargs) ==
    LET self == ProtocolOf(p)
        object == getattr(getattr(self, S_factory).val, S_object).val
        found == lookup_method(name)
        method == found.method
    IN  IF ~found.found
        THEN Outcome("MethodCallError", ForbiddenMessage(name), "MethodCallError",
                     PyNone, << >>, << >>)
        ELSE
        IF name \notin ObjectMethods
        THEN Outcome("raise", << >>, "AttributeError", PyNone, <<name>>, << >>)
        ELSE
        IF \E key \in DOMAIN method.kwargs :
               ~get_nested_attr(self, method.kwargs[key]).ok
        THEN Outcome("raise", << >>, "AttributeError", PyNone, <<name>>, << >>)
        ELSE
        LET method_args == assemble_args(args)
            method_kwargs == assemble_kwargs(self, method, kwargs)
            call == [name |-> name, args |-> method_args,
                     kwargs |-> method_kwargs]
            ran == method_func(object, name, method_args, method_kwargs)
        IN  IF ran.raised
            THEN propagate(ran, name, call)
            ELSE IF ~result_accepted(ran.val)
            THEN Outcome("MethodCallError", NonSerializableMessage,
                         "MethodCallError", ran.val, <<name>>, invocations(call))
            ELSE Outcome("response", << >>, "", ran.val, <<name>>,
                         invocations(call))

\* dict.update: the items of other set in mapping.
update(mapping, other) ==
    [key \in DOMAIN mapping \cup DOMAIN other |->
        IF key \in DOMAIN other THEN other[key] ELSE mapping[key]]

\* method_kwargs = kwargs: the mapping received is the one written to.
method_kwargs_object_received == "kwargs"

\* method_kwargs = {}: the writes of the responder go to a new mapping.
method_kwargs_object == "method_kwargs"

\* The objects a run of the responder can reach, before it starts.
objects_before(name, args, kwargs) ==
    [table |-> _methods_by_name,
     extras |-> IF name \in DOMAIN _methods_by_name
                THEN _methods_by_name[name].kwargs ELSE NoExtras,
     args |-> args.val, kwargs |-> kwargs.val,
     method_args |-> << >>, method_kwargs |-> EmptyDict]

\* The same objects after the run: the table and the extras are only read,
\* args is read into method_args, kwargs is read into the mapping that
\* method_kwargs names and every extra is set in that mapping.
objects_after(p, name, args, kwargs) ==
    LET self == ProtocolOf(p)
        before == objects_before(name, args, kwargs)
        extended == [before EXCEPT !.method_args =
                        IF args.present /\ args.val # << >>
                        THEN @ \o before.args ELSE @]
        updated == [extended EXCEPT ![method_kwargs_object] =
                       IF kwargs.present /\ DOMAIN kwargs.val # {}
                       THEN update(@, extended.kwargs) ELSE @]
        resolved == [key \in DOMAIN before.extras |->
                        get_nested_attr(self, before.extras[key]).val]
    IN  IF ~lookup_method(name).found \/ name \notin ObjectMethods
        THEN before
        ELSE [updated EXCEPT ![method_kwargs_object] = update(@, resolved)]

(***************************************************************************)
(* MethodCall: the command's boxes on the connection.                      *)
(***************************************************************************)
NoWire == dumps(PyNone)

NoFailure == [kind |-> "", msg |-> << >>]

Failure(kind, msg) == [kind |-> kind, msg |-> msg]

\* MethodCall.errors
errors == [e \in {"MethodCallError"} |-> "METHOD_CALL_ERROR"]

UnknownErrorCode == "UNKNOWN"

AskBox(tag, name, args, kwargs) ==
    [kind |-> "ask", tag |-> tag, name |-> name,
     args |-> args, kwargs |-> kwargs,
     result |-> NoWire, code |-> "", desc |-> << >>]

AnswerBox(tag, result) ==
    [kind |-> "answer", tag |-> tag, name |-> "",
     args |-> [present |-> FALSE, w |-> NoWire],
     kwargs |-> [present |-> FALSE, m |-> [k \in {} |-> NoWire]],
     result |-> result, code |-> "", desc |-> << >>]

ErrorBox(tag, code, desc) ==
    [kind |-> "error", tag |-> tag, name |-> "",
     args |-> [present |-> FALSE, w |-> NoWire],
     kwargs |-> [present |-> FALSE, m |-> [k \in {} |-> NoWire]],
     result |-> NoWire, code |-> code, desc |-> desc]

\* The box built whether or not the arguments could be encoded.
makeArguments_unchecked(envelope) ==
    LET a == toString(PyTuple(envelope.args))
        m == [k \in DOMAIN envelope.kwargs.map |-> toString(envelope.kwargs.map[k])]
    IN  [ok |-> TRUE,
         args |-> [present |-> TRUE, w |-> a],
         kwargs |-> [present |-> TRUE, m |-> m]]

\* MethodCall.arguments: "args" and "kwargs" go through MethodCallArgument.
makeArguments(envelope) ==
    LET a == toString(PyTuple(envelope.args))
        m == [k \in DOMAIN envelope.kwargs.map |-> toString(envelope.kwargs.map[k])]
    IN  [ok |-> a.ok /\ \A k \in DOMAIN m : m[k].ok,
         args |-> [present |-> TRUE, w |-> a],
         kwargs |-> [present |-> TRUE, m |-> m]]

\* The arguments the responder is called with: an absent optional argument
\* is None, a present one is decoded by MethodCallArgument.
parseArguments(box) ==
    [name |-> box.name,
     args |-> IF box.args.present
              THEN Present(fromString(box.args.w).s) ELSE AbsentArgs,
     kwargs |-> IF box.kwargs.present
                THEN Present([k \in DOMAIN box.kwargs.m |->
                                 fromString(box.kwargs.m[k])])
                ELSE AbsentKwargs]

\* MethodCall.response and MethodCall.errors: the box that answers a run of
\* the responder.  A result goes through MethodCallArgument.toString; an
\* exception that MethodCall.errors does not declare is reported as unknown,
\* a declared one under its code with its message.
makeResponse(tag, outcome) ==
    CASE outcome.kind = "response" /\ toString(outcome.result).ok ->
            AnswerBox(tag, toString(outcome.result))
      [] outcome.kind = "response" /\ ~toString(outcome.result).ok ->
            ErrorBox(tag, UnknownErrorCode, << >>)
      [] outcome.kind = "MethodCallError" ->
            ErrorBox(tag, errors["MethodCallError"], outcome.msg)
      [] outcome.kind = "raise" /\ outcome.exc \in DOMAIN errors ->
            ErrorBox(tag, errors[outcome.exc], outcome.msg)
      [] OTHER -> ErrorBox(tag, UnknownErrorCode, << >>)

\* The values the callee hands to the encoder while answering.
encoded_by(outcome) ==
    IF outcome.kind = "response" THEN <<outcome.result>> ELSE << >>

(***************************************************************************)
(* Deferreds.  "called" is the Deferred callRemote returns; the future of  *)
(* a proxy call is what send_method_call returns.                          *)
(***************************************************************************)
Pending == [st |-> "pending", value |-> PyNone, failure |-> NoFailure]

Fired(v) == [st |-> "fired", value |-> v, failure |-> NoFailure]

Failed(f) == [st |-> "failed", value |-> PyNone, failure |-> f]

\* The result callRemote's Deferred ends with for a box that answers it.
box_result(box) ==
    CASE box.kind = "answer" ->
            [st |-> "fired", response |-> [result |-> fromString(box.result)],
             failure |-> NoFailure]
      [] box.kind = "error" /\ box.code = errors["MethodCallError"] ->
            [st |-> "failed", response |-> [result |-> PyNone],
             failure |-> Failure("MethodCallError", box.desc)]
      [] OTHER ->
            [st |-> "failed", response |-> [result |-> PyNone],
             failure |-> Failure("UnknownRemoteError", box.desc)]

lost_result ==
    [st |-> "failed", response |-> [result |-> PyNone],
     failure |-> Failure("ConnectionLost", << >>)]

encoding_result ==
    [st |-> "failed", response |-> [result |-> PyNone],
     failure |-> Failure("ValueError", << >>)]

(***************************************************************************)
(* RemoteObject                                                            *)
(***************************************************************************)
\* Names the ordinary attribute lookup finds, so __getattr__ is not called.
ReservedAttrs == {"protocol", "_protocol", "_create_method_call_sender"}

\* The caller's mapping itself instead of a copy of it.
copy_alias(kwargs, ref) == kwargs

\* kwargs.copy(): a new mapping object with the same items.
copy(kwargs, ref) == [ref |-> ref, map |-> kwargs.map]

\* The whole response, a dict, instead of its "result" item.
unwrap_envelope(response) == V("dict", 0, <<response.result>>)

\* lambda response: response["result"]
unwrap(response) == response.result

\* The lambda added with addBoth: given a Failure, indexing it raises.
addCallback_both(called) ==
    IF called.st = "fired"
    THEN Fired(unwrap(called.response))
    ELSE Failed(Failure("TypeError", << >>))

\* A Deferred of the sender's own that only the callback fires.
addCallback_no_errback(called) ==
    IF called.st = "fired"
    THEN Fired(unwrap(called.response))
    ELSE Pending

\* called.addCallback(lambda response: response["result"]): the future
\* send_method_call returns, given how "called" ended.
addCallback(called) ==
    IF called.st = "fired"
    THEN Fired(unwrap(called.response))
    ELSE Failed(called.failure)

\* The command sent a second time.
send_method_call_twice(name, args, kwargs, ref) ==
    << [name |-> name, args |-> args, kwargs |-> copy(kwargs, ref)],
       [name |-> name, args |-> args, kwargs |-> copy(kwargs, ref)] >>

\* send_method_call: the envelopes it passes to callRemote, in order.
send_method_call(name, args, kwargs, ref) ==
    << [name |-> name, args |-> args, kwargs |-> copy(kwargs, ref)] >>

(***************************************************************************)
(* State                                                                   *)
(***************************************************************************)
VARIABLES
    connected,    \* the connection between the two protocols is up
    callers,      \* the peers whose proxy is used
    wire,         \* wire[p]: the boxes on their way to p, oldest first
    outstanding,  \* outstanding[p]: the tags p awaits an answer to
    call,         \* call[i]: the i-th invocation of a proxy and its future
    disp,         \* disp[i]: what the responder did with the i-th call
    encoded,      \* encoded[i]: the values encoded to answer the i-th call
    probe         \* one application of get_nested_attr: its input and result

vars == <<connected, callers, wire, outstanding, call, disp, encoded, probe>>

NoEnvelope ==
    [name |-> "", args |-> << >>, kwargs |-> [ref |-> 0, map |-> EmptyDict]]

IdleCall ==
    [caller |-> "", attr |-> "", args |-> << >>,
     kwargs |-> [ref |-> 0, map |-> EmptyDict],
     requests |-> 0, boxes |-> 0, env |-> NoEnvelope,
     future |-> Pending, resolutions |-> 0, by |-> ""]

NoDispatch ==
    [runs |-> 0, callee |-> "",
     received |-> [name |-> "", args |-> AbsentArgs, kwargs |-> AbsentKwargs],
     outcome |-> Outcome("", << >>, "", PyNone, << >>, << >>),
     after |-> objects_before("", AbsentArgs, AbsentKwargs)]

NoProbe ==
    [obj |-> PyNone, path |-> S_empty, done |-> FALSE,
     result |-> [ok |-> FALSE, val |-> PyNone]]

\* The invocations the proxies are used for: attribute name, positional
\* arguments, keyword arguments.
Input(name, args, kwargs) == [name |-> name, args |-> args, kwargs |-> kwargs]

CallInputs ==
    { Input("add", <<PyInt(2), PyInt(3)>>, EmptyDict),
      Input("add", <<PyInt(2), Socket>>, EmptyDict),
      Input("echo", <<PyList(<<PyInt(1), PyStr(7)>>), PyInt(3)>>, EmptyDict),
      Input("anything", << >>, EmptyDict),
      Input("secret", <<PyInt(3)>>, [k \in {"k"} |-> PyInt(7)]),
      Input("whoami", << >>, EmptyDict),
      Input("whoami", << >>, [k \in {"caller_id"} |-> PyInt(7)]),
      Input("ctx", <<PyInt(2)>>, [k \in {"target", "k"} |-> PyInt(7)]),
      Input("bad", << >>, EmptyDict),
      Input("nested", << >>, EmptyDict),
      Input("boom", << >>, EmptyDict),
      Input("deny", << >>, EmptyDict),
      Input("echo", <<PyInt(3)>>, [k \in {"k"} |-> Socket]),
      Input("ghost", << >>, EmptyDict),
      Input("lost", << >>, EmptyDict) }

Init ==
    /\ connected = TRUE
    /\ callers = {"A"}
    /\ wire = [p \in Peers |-> << >>]
    /\ outstanding = [p \in Peers |-> {}]
    /\ call = [i \in CallIds |-> IdleCall]
    /\ disp = [i \in CallIds |-> NoDispatch]
    /\ encoded = [i \in CallIds |-> << >>]
    /\ probe = NoProbe

(***************************************************************************)
(* Actions                                                                 *)
(***************************************************************************)
\* The future of a call once "called" has ended, and the bookkeeping of it.
Resolve(c, called, how) ==
    LET f == addCallback(called)
    IN  [c EXCEPT !.future = f,
                  !.resolutions = IF f.st = "pending" THEN @ ELSE @ + 1,
                  !.by = IF f.st = "pending" THEN @ ELSE how]

\* remote.<name>(*args, **kwargs): __getattr__ makes the sender, the sender
\* builds the envelope and hands it to callRemote.  callRemote encodes the
\* arguments, then writes the box unless the connection is gone.
Invoke(p, input) ==
    /\ p \in callers
    /\ input.name \notin ReservedAttrs
    /\ \E i \in CallIds :
        /\ call[i].caller = ""
        /\ \A j \in 1..(i - 1) : call[j].caller # ""
        /\ LET kwargs == [ref |-> 2 * i - 1, map |-> input.kwargs]
               requests == send_method_call(input.name, input.args,
                                            kwargs, 2 * i)
               envelope == requests[1]
               made == makeArguments(envelope)
               boxes == [k \in 1..Len(requests) |->
                            AskBox(i, requests[k].name,
                                   makeArguments(requests[k]).args,
                                   makeArguments(requests[k]).kwargs)]
               started == [IdleCall EXCEPT !.caller = p,
                                           !.attr = input.name,
                                           !.args = input.args,
                                           !.kwargs = kwargs,
                                           !.requests = Len(requests),
                                           !.env = envelope]
           IN  IF ~made.ok
               THEN /\ call' = [call EXCEPT ![i] =
                                   Resolve(started, encoding_result, "encode")]
                    /\ UNCHANGED <<wire, outstanding>>
               ELSE IF ~connected
               THEN /\ call' = [call EXCEPT ![i] =
                                   Resolve(started, lost_result, "closed")]
                    /\ UNCHANGED <<wire, outstanding>>
               ELSE /\ call' = [call EXCEPT ![i] =
                                   [started EXCEPT !.boxes = Len(boxes)]]
                    /\ wire' = [wire EXCEPT ![Peer(p)] = @ \o boxes]
                    /\ outstanding' = [outstanding EXCEPT ![p] = @ \cup {i}]
    /\ UNCHANGED <<connected, callers, disp, encoded, probe>>

\* The responder applied to the parsed arguments of a box.
respond(q, kw) == _call_object_method(q, kw.name, kw.args, kw.kwargs)

\* A responder that waits until the peer's own calls are answered.
HandleAsk_blocking(q) ==
    /\ outstanding[q] = {}
    /\ connected
    /\ wire[q] # << >>
    /\ Head(wire[q]).kind = "ask"
    /\ disp' = [disp EXCEPT ![Head(wire[q]).tag] =
                   [runs |-> @.runs + 1, callee |-> q,
                    received |-> parseArguments(Head(wire[q])),
                    outcome |-> respond(q, parseArguments(Head(wire[q]))),
                    after |-> objects_after(q, Head(wire[q]).name,
                                  parseArguments(Head(wire[q])).args,
                                  parseArguments(Head(wire[q])).kwargs)]]
    /\ encoded' = [encoded EXCEPT ![Head(wire[q]).tag] =
                      @ \o encoded_by(disp'[Head(wire[q]).tag].outcome)]
    /\ wire' = [wire EXCEPT
                   ![q] = Tail(@),
                   ![Peer(q)] = Append(@, makeResponse(Head(wire[q]).tag,
                                           disp'[Head(wire[q]).tag].outcome))]
    /\ UNCHANGED <<connected, callers, outstanding, call, probe>>

\* q receives a MethodCall: the responder runs and its answer is written.
HandleAsk(q) ==
    /\ connected
    /\ wire[q] # << >>
    /\ Head(wire[q]).kind = "ask"
    /\ disp' = [disp EXCEPT ![Head(wire[q]).tag] =
                   [runs |-> @.runs + 1, callee |-> q,
                    received |-> parseArguments(Head(wire[q])),
                    outcome |-> respond(q, parseArguments(Head(wire[q]))),
                    after |-> objects_after(q, Head(wire[q]).name,
                                  parseArguments(Head(wire[q])).args,
                                  parseArguments(Head(wire[q])).kwargs)]]
    /\ encoded' = [encoded EXCEPT ![Head(wire[q]).tag] =
                      @ \o encoded_by(disp'[Head(wire[q]).tag].outcome)]
    /\ wire' = [wire EXCEPT
                   ![q] = Tail(@),
                   ![Peer(q)] = Append(@, makeResponse(Head(wire[q]).tag,
                                           disp'[Head(wire[q]).tag].outcome))]
    /\ UNCHANGED <<connected, callers, outstanding, call, probe>>

\* p receives the answer or the error of one of its outstanding calls.
HandleReply(p) ==
    /\ connected
    /\ wire[p] # << >>
    /\ Head(wire[p]).kind \in {"answer", "error"}
    /\ Head(wire[p]).tag \in outstanding[p]
    /\ call' = [call EXCEPT ![Head(wire[p]).tag] =
                   Resolve(@, box_result(Head(wire[p])), "reply")]
    /\ outstanding' = [outstanding EXCEPT ![p] = @ \ {Head(wire[p]).tag}]
    /\ wire' = [wire EXCEPT ![p] = Tail(@)]
    /\ UNCHANGED <<connected, callers, disp, encoded, probe>>

\* The connection closes: every outstanding call of both peers fails and
\* the boxes not yet received are gone.
ConnectionLost ==
    /\ connected
    /\ connected' = FALSE
    /\ call' = [i \in CallIds |->
                   IF \E p \in Peers : i \in outstanding[p]
                   THEN Resolve(call[i], lost_result, "lost")
                   ELSE call[i]]
    /\ outstanding' = [p \in Peers |-> {}]
    /\ wire' = [p \in Peers |-> << >>]
    /\ UNCHANGED <<callers, disp, encoded, probe>>

Next ==
    \/ \E p \in Peers, input \in CallInputs : Invoke(p, input)
    \/ \E q \in Peers : HandleAsk(q)
    \/ \E p \in Peers : HandleReply(p)
    \/ ConnectionLost

Spec == Init /\ [][Next]_vars

\* Boxes that arrive are handled; the connection may stay up forever.
FairSpec ==
    /\ Spec
    /\ \A p \in Peers : WF_vars(HandleAsk(p)) /\ WF_vars(HandleReply(p))

(***************************************************************************)
(* Both peers use their proxy over the one connection.                     *)
(***************************************************************************)
SymInputs ==
    { Input("add", <<PyInt(2), PyInt(3)>>, EmptyDict),
      Input("echo", <<PyList(<<PyInt(1), PyStr(7)>>), PyInt(3)>>, EmptyDict),
      Input("whoami", << >>, [k \in {"caller_id"} |-> PyInt(7)]),
      Input("ctx", <<PyInt(2)>>, [k \in {"target", "k"} |-> PyInt(7)]),
      Input("anything", << >>, EmptyDict) }

SymInit ==
    /\ connected = TRUE
    /\ callers = Peers
    /\ wire = [p \in Peers |-> << >>]
    /\ outstanding = [p \in Peers |-> {}]
    /\ call = [i \in CallIds |-> IdleCall]
    /\ disp = [i \in CallIds |-> NoDispatch]
    /\ encoded = [i \in CallIds |-> << >>]
    /\ probe = NoProbe

SymNext ==
    \/ \E p \in Peers, input \in SymInputs : Invoke(p, input)
    \/ \E q \in Peers : HandleAsk(q)
    \/ \E p \in Peers : HandleReply(p)
    \/ ConnectionLost

SymSpec == SymInit /\ [][SymNext]_vars

SymFairSpec ==
    /\ SymSpec
    /\ \A p \in Peers : WF_vars(HandleAsk(p)) /\ WF_vars(HandleReply(p))

(***************************************************************************)
(* A peer that sends the MethodCall command itself and leaves out the      *)
(* optional arguments it has nothing for.                                  *)
(***************************************************************************)
RawInputs ==
    { Input(name, args, kwargs) :
        name \in {"add", "echo", "ctx"},
        args \in {<< >>, <<PyInt(2), PyInt(3)>>},
        kwargs \in {EmptyDict, [k \in {"target"} |-> PyInt(7)]} }

\* protocol.callRemote(MethodCall, name=..., [args=...], [kwargs=...]): an
\* optional argument that is not given is not in the box.
RawInvoke(p, input, hasArgs, hasKwargs) ==
    /\ p \in callers
    /\ connected
    /\ hasArgs \/ input.args = << >>
    /\ hasKwargs \/ input.kwargs = EmptyDict
    /\ \E i \in CallIds :
        /\ call[i].caller = ""
        /\ \A j \in 1..(i - 1) : call[j].caller # ""
        /\ call' = [call EXCEPT ![i] =
                       [IdleCall EXCEPT
                           !.caller = p, !.attr = input.name,
                           !.args = input.args,
                           !.kwargs = [ref |-> 2 * i - 1, map |-> input.kwargs],
                           !.requests = 1, !.boxes = 1,
                           !.env = [name |-> input.name, args |-> input.args,
                                    kwargs |-> [ref |-> 2 * i - 1,
                                                map |-> input.kwargs]]]]
        /\ wire' = [wire EXCEPT ![Peer(p)] =
                       Append(@, AskBox(i, input.name,
                           IF hasArgs
                           THEN makeArguments(call'[i].env).args
                           ELSE [present |-> FALSE, w |-> NoWire],
                           IF hasKwargs
                           THEN makeArguments(call'[i].env).kwargs
                           ELSE [present |-> FALSE, m |-> [k \in {} |-> NoWire]]))]
        /\ outstanding' = [outstanding EXCEPT ![p] = @ \cup {i}]
    /\ UNCHANGED <<connected, callers, disp, encoded, probe>>

RawNext ==
    \/ \E p \in Peers, input \in RawInputs, hasArgs, hasKwargs \in BOOLEAN :
           RawInvoke(p, input, hasArgs, hasKwargs)
    \/ \E q \in Peers : HandleAsk(q)
    \/ \E p \in Peers : HandleReply(p)
    \/ ConnectionLost

RawSpec == Init /\ [][RawNext]_vars

(***************************************************************************)
(* get_nested_attr applied to an object and a path.                        *)
(***************************************************************************)
ProbeObjects ==
    {ProtocolOf(p) : p \in Peers} \cup {FactoryOf(p) : p \in Peers}
        \cup {ObjectOf(p) : p \in Peers}

ProbePaths ==
    { S_empty, S_dot, S_factory, S_object, S_remote, S_missing,
      S_factory_object, S_dot_factory_object, S_dot \o S_object,
      S_dot \o S_remote, S_factory \o S_dot \o S_missing }

PathInit ==
    /\ connected = TRUE
    /\ callers = {}
    /\ wire = [p \in Peers |-> << >>]
    /\ outstanding = [p \in Peers |-> {}]
    /\ call = [i \in CallIds |-> IdleCall]
    /\ disp = [i \in CallIds |-> NoDispatch]
    /\ encoded = [i \in CallIds |-> << >>]
    /\ probe \in {[NoProbe EXCEPT !.obj = obj, !.path = path] :
                     obj \in ProbeObjects, path \in ProbePaths}

ResolvePath ==
    /\ ~probe.done
    /\ probe' = [probe EXCEPT !.done = TRUE,
                              !.result = get_nested_attr(probe.obj, probe.path)]
    /\ UNCHANGED <<connected, callers, wire, outstanding, call, disp, encoded>>

PathNext == ResolvePath

PathSpec == PathInit /\ [][PathNext]_vars

(***************************************************************************)
(* Properties                                                              *)
(***************************************************************************)
\* The names the protocol class declares, and the extras of a name, read
\* off the declarations.
Declared == {methods[k].name : k \in 1..Len(methods)}

ExtrasOf(name) ==
    LET last == CHOOSE k \in 1..Len(methods) :
                    /\ methods[k].name = name
                    /\ \A j \in (k + 1)..Len(methods) : methods[j].name # name
    IN  methods[last].kwargs

Dispatched == {i \in CallIds : disp[i].runs > 0}

Invoked == {i \in Dispatched : disp[i].outcome.invoked # << >>}

AnswerOnWire(i) ==
    \E p \in Peers : \E k \in DOMAIN wire[p] :
        wire[p][k].kind = "answer" /\ wire[p][k].tag = i

AsksOnWire(i) ==
    Cardinality({<<p, k>> \in Peers \X (1..(2 * MaxCalls)) :
                    /\ k \in DOMAIN wire[p]
                    /\ wire[p][k].kind = "ask"
                    /\ wire[p][k].tag = i})

\* C1: a MethodCall whose name is not declared fails with MethodCallError
\* "Forbidden method '<name>'", and the responder neither looks up nor
\* invokes anything on the exposed object, whether or not the object defines
\* a method of that name.
C1_ForbiddenNeverReachesObject ==
    \A i \in Dispatched :
        disp[i].received.name \notin Declared =>
            /\ disp[i].outcome.kind = "MethodCallError"
            /\ disp[i].outcome.msg = ForbiddenMessage(disp[i].received.name)
            /\ disp[i].outcome.looked = << >>
            /\ disp[i].outcome.invoked = << >>

C1_Witness ==
    \E i \in Dispatched :
        /\ disp[i].received.name = "secret"
        /\ "secret" \in ObjectMethods \ Declared
        /\ disp[i].outcome.msg = ForbiddenMessage("secret")

\* C2: when a declared method with extras is invoked, its keyword arguments
\* contain every extra key, bound to the attribute its path names on the
\* protocol that answers; a keyword argument of the caller with the same key
\* is replaced and does not reach the method.
C2_ExtrasOverrideCaller ==
    \A i \in Invoked :
        LET name == disp[i].received.name
            handed == disp[i].outcome.invoked[1].kwargs
            self == ProtocolOf(disp[i].callee)
        IN  \A key \in DOMAIN ExtrasOf(name) :
                /\ key \in DOMAIN handed
                /\ get_nested_attr(self, ExtrasOf(name)[key]).ok
                /\ handed[key] = get_nested_attr(self, ExtrasOf(name)[key]).val
                /\ handed[key].t = "instance"

C2_Witness ==
    \E i \in Invoked :
        /\ disp[i].received.name = "whoami"
        /\ "caller_id" \in DOMAIN disp[i].received.kwargs.val
        /\ disp[i].received.kwargs.val["caller_id"] = PyInt(7)
        /\ disp[i].outcome.invoked[1].kwargs["caller_id"] = ProtocolOf(disp[i].callee)
        /\ disp[i].outcome.result = PyBool(TRUE)

\* The value the exposed object's method returns for the arguments the
\* responder handed to it.
Returned(i) ==
    LET made == disp[i].outcome.invoked[1]
    IN  method_func(ObjectOf(disp[i].callee), made.name, made.args, made.kwargs)

\* C3: when a declared method returns a value v for which check(v) is false,
\* the dispatch fails with MethodCallError "Non-serializable result", no
\* answer box is produced for the call, and v is not handed to the encoder.
C3_NonSerializableResultRejected ==
    \A i \in Invoked :
        (~Returned(i).raised /\ ~check(Returned(i).val)) =>
            /\ disp[i].outcome.kind = "MethodCallError"
            /\ disp[i].outcome.msg = NonSerializableMessage
            /\ encoded[i] = << >>
            /\ ~AnswerOnWire(i)
            /\ call[i].future.st # "fired"

C3_Witness ==
    \E i \in Invoked :
        /\ disp[i].received.name = "bad"
        /\ Returned(i).val = Socket
        /\ call[i].future = Failed(Failure("MethodCallError", NonSerializableMessage))

\* C4: every result handed to the encoder is encodable at every depth: a
\* declared method that returns a value dumps cannot encode, a container
\* with an unencodable element included, makes the call fail with
\* MethodCallError and the value is not handed to the encoder.
C4_DeepNonSerializableRejected ==
    \A i \in Invoked :
        (~Returned(i).raised /\ ~dumps(Returned(i).val).ok) =>
            /\ disp[i].outcome.kind = "MethodCallError"
            /\ encoded[i] = << >>
            /\ (call[i].by = "reply" => call[i].future.failure.kind = "MethodCallError")

Started == {i \in CallIds : call[i].caller # ""}

\* C5: the future of a proxy call is resolved once: a resolved future
\* never changes again, and under fair handling of the boxes that arrive
\* every call that was made ends fired or failed.
C5_ResolvedExactlyOnce ==
    /\ [][\A i \in CallIds :
             call[i].future.st # "pending" =>
                 /\ call'[i].future = call[i].future
                 /\ call'[i].resolutions = call[i].resolutions]_vars
    /\ [](\A i \in CallIds : call[i].resolutions <= 1)
    /\ \A i \in CallIds :
           (call[i].caller # "") ~>
               (call[i].future.st \in {"fired", "failed"} /\ call[i].resolutions = 1)

C5_Witness ==
    \E i, j \in Started :
        /\ call[i].by = "reply" /\ call[i].future.st = "failed"
        /\ call[j].by = "lost" /\ call[j].resolutions = 1

\* C6: when the connection closes, every pending future fails with the
\* connection-lost failure, which is not MethodCallError; afterwards none of
\* them changes and none is pending.
C6_ConnectionLostRejectsPending ==
    /\ [][(connected /\ ~connected') =>
             \A i \in Started :
                 call[i].future.st = "pending" =>
                     /\ call'[i].future = Failed(Failure("ConnectionLost", << >>))
                     /\ call'[i].future.failure.kind # "MethodCallError"]_vars
    /\ [][\A i \in Started :
             call[i].by = "lost" => call'[i].future = call[i].future]_vars
    /\ [](~connected => \A i \in Started : call[i].future.st # "pending")

C6_Witness ==
    \E i, j \in Started :
        /\ i # j
        /\ call[i].by = "lost" /\ call[i].future.failure.kind = "ConnectionLost"
        /\ call[j].by = "lost" /\ call[j].future.failure.kind = "ConnectionLost"

\* The keyword arguments the method is due: the caller's, with every extra
\* of the declaration set to the attribute its path names on the callee.
ExpectedKwargs(i) ==
    LET extras == ExtrasOf(call[i].attr)
        self == ProtocolOf(Peer(call[i].caller))
    IN  [key \in DOMAIN call[i].kwargs.map \cup DOMAIN extras |->
            IF key \in DOMAIN extras
            THEN get_nested_attr(self, extras[key]).val
            ELSE call[i].kwargs.map[key]]

Expected(i) ==
    method_func(ObjectOf(Peer(call[i].caller)), call[i].attr, call[i].args,
                ExpectedKwargs(i))

Callable(i) ==
    /\ call[i].attr \in Declared \cap ObjectMethods
    /\ \A key \in DOMAIN ExtrasOf(call[i].attr) :
           get_nested_attr(ProtocolOf(Peer(call[i].caller)),
                           ExtrasOf(call[i].attr)[key]).ok

\* C7: a call that is answered, to a declared method whose return value is
\* encodable, fires with exactly the value the method returns for the
\* arguments of the call; a call the responder fails with MethodCallError
\* fails with MethodCallError and the same message.
C7_FutureCarriesResult ==
    \A i \in Started :
        call[i].by = "reply" =>
            /\ (Callable(i) /\ ~Expected(i).raised /\ dumps(Expected(i).val).ok) =>
                   call[i].future = Fired(Expected(i).val)
            /\ call[i].future.st = "fired" =>
                   (Callable(i) /\ call[i].future.value = Expected(i).val)
            /\ disp[i].outcome.kind = "MethodCallError" =>
                   call[i].future =
                       Failed(Failure("MethodCallError", disp[i].outcome.msg))

C7_Witness ==
    \E i, j \in Started :
        /\ call[i].attr = "add" /\ call[i].future = Fired(PyInt(5))
        /\ call[j].attr = "echo"
        /\ call[j].future = Fired(PyList(<<PyInt(1), PyStr(7)>>))

\* C8: an answered call to a name that is not declared, or that the exposed
\* object does not define, fails with MethodCallError.
C8_UnknownMethodRejected ==
    \A i \in Started :
        (call[i].by = "reply" /\ call[i].attr \notin Declared \cap ObjectMethods) =>
            /\ call[i].future.st = "failed"
            /\ call[i].future.failure.kind = "MethodCallError"

\* C9: the envelope of a call has the accessed attribute as name, the
\* positional arguments in order as args and the keyword arguments as
\* kwargs; its kwargs is another mapping object than the caller's, and the
\* box on the connection decodes to the same name and arguments.
C9_EnvelopeMatchesCall ==
    /\ \A i \in Started :
           /\ call[i].env.name = call[i].attr
           /\ call[i].env.args = call[i].args
           /\ call[i].env.kwargs.map = call[i].kwargs.map
           /\ call[i].env.kwargs.ref # call[i].kwargs.ref
    /\ \A p \in Peers : \A k \in DOMAIN wire[p] :
           wire[p][k].kind = "ask" =>
               LET i == wire[p][k].tag
               IN  parseArguments(wire[p][k]) =
                       [name |-> call[i].attr,
                        args |-> Present(call[i].args),
                        kwargs |-> Present(call[i].kwargs.map)]

C9_Witness ==
    \E i \in Started :
        /\ call[i].attr = "ctx"
        /\ call[i].args = <<PyInt(2)>>
        /\ DOMAIN call[i].kwargs.map = {"target", "k"}
        /\ AsksOnWire(i) = 1

\* C10: every invocation of a proxy callable hands one envelope to the
\* connection: not a second one after a failure, and one also when an
\* earlier call with the same arguments was answered; the responder runs at
\* most once per call.
C10_OneEnvelopePerInvocation ==
    /\ \A i \in Started :
           /\ call[i].requests = 1
           /\ call[i].boxes <= 1
           /\ disp[i].runs <= call[i].boxes
           /\ connected => AsksOnWire(i) + disp[i].runs = call[i].boxes
    /\ \A i \in CallIds \ Started :
           call[i].requests = 0 /\ disp[i].runs = 0 /\ AsksOnWire(i) = 0

C10_Witness ==
    \E i, j \in Started :
        /\ i < j
        /\ call[i].attr = call[j].attr
        /\ call[i].args = call[j].args
        /\ call[i].by = "reply"
        /\ call[j].requests = 1
        /\ AsksOnWire(j) = 1

\* C11: with both peers calling over the one connection, a peer answers
\* incoming calls while calls of its own are outstanding: the box at the head
\* of a peer's queue can always be handled, every answered call carries the
\* outcome of its own request run by the other peer, and under fair handling
\* every call ends.
C11_SymmetricCallsResolve ==
    /\ [](connected =>
            \A p \in Peers :
                wire[p] # << >> =>
                    \/ Head(wire[p]).kind = "ask"
                    \/ Head(wire[p]).tag \in outstanding[p])
    /\ [](\A i \in Started :
            call[i].by = "reply" =>
                /\ disp[i].runs = 1
                /\ disp[i].callee = Peer(call[i].caller)
                /\ disp[i].received.name = call[i].attr
                /\ disp[i].outcome.kind = "response" =>
                       call[i].future = Fired(Expected(i).val)
                /\ disp[i].outcome.kind = "MethodCallError" =>
                       call[i].future =
                           Failed(Failure("MethodCallError",
                                          ForbiddenMessage(call[i].attr))))
    /\ \A i \in CallIds :
           (call[i].caller # "") ~> (call[i].future.st \in {"fired", "failed"})

C11_Witness ==
    \E i, j \in Started :
        /\ call[i].caller = "A" /\ call[j].caller = "B"
        /\ i \in outstanding["A"]
        /\ disp[j].runs = 1 /\ disp[j].callee = "A"
        /\ call[j].by = "reply"
        /\ call[j].future = Fired(PyInt(5))

C14_BodyExceptionPropagates ==
    \A i \in Invoked :
        Returned(i).raised =>
            /\ disp[i].outcome.kind = "raise"
            /\ disp[i].outcome.exc = Returned(i).exc
            /\ encoded[i] = << >>
            /\ ~AnswerOnWire(i)
            /\ call[i].future.st # "fired"
            /\ call[i].by = "reply" =>
                   /\ call[i].future.st = "failed"
                   /\ call[i].future.failure.kind # "MethodCallError"

\* C14 (amended): the same, except that the failure of an answered caller is
\* MethodCallError with the exception's message exactly when the exception
\* the body raised is itself a MethodCallError, and an unknown remote error
\* otherwise.
C14_BodyExceptionNotTranslated ==
    \A i \in Invoked :
        Returned(i).raised =>
            /\ disp[i].outcome.kind = "raise"
            /\ disp[i].outcome.exc = Returned(i).exc
            /\ encoded[i] = << >>
            /\ ~AnswerOnWire(i)
            /\ call[i].future.st # "fired"
            /\ call[i].by = "reply" =>
                   call[i].future =
                       IF Returned(i).exc = "MethodCallError"
                       THEN Failed(Failure("MethodCallError", Returned(i).msg))
                       ELSE Failed(Failure("UnknownRemoteError", << >>))

C14_Witness ==
    \E i, j \in Invoked :
        /\ call[i].attr = "boom" /\ call[i].by = "reply"
        /\ disp[i].outcome.exc = "RuntimeError"
        /\ call[i].future.failure.kind = "UnknownRemoteError"
        /\ call[j].attr = "deny" /\ call[j].by = "reply"
        /\ call[j].future.failure.kind = "MethodCallError"

\* C15: whatever the outcome of a dispatch, the objects it was given hold
\* after it what they held before it: the table of declared methods, the
\* extras of the method, the positional and the keyword arguments received.
\* The mapping handed to the method is the new one the extras were set in.
C15_DispatchLeavesInputsUnchanged ==
    \A i \in Dispatched :
        /\ disp[i].after.table = _methods_by_name
        /\ disp[i].after.extras =
               objects_before(disp[i].received.name, disp[i].received.args,
                              disp[i].received.kwargs).extras
        /\ disp[i].after.args = disp[i].received.args.val
        /\ disp[i].after.kwargs = disp[i].received.kwargs.val
        /\ i \in Invoked =>
               /\ disp[i].outcome.invoked[1].kwargs = disp[i].after.method_kwargs
               /\ disp[i].outcome.invoked[1].args = disp[i].after.method_args

C15_Witness ==
    \E i, j \in Dispatched :
        /\ disp[i].received.name = "ctx"
        /\ disp[i].outcome.kind = "response"
        /\ DOMAIN disp[i].after.kwargs = {"target", "k"}
        /\ disp[i].after.kwargs["target"] = PyInt(7)
        /\ disp[i].after.method_kwargs["target"] = ObjectOf(disp[i].callee)
        /\ disp[i].after.args = <<PyInt(2)>>
        /\ disp[j].outcome.kind \in {"raise", "MethodCallError"}

Encodable(i) ==
    /\ dumps(PyTuple(call[i].args)).ok
    /\ \A key \in DOMAIN call[i].kwargs.map : dumps(call[i].kwargs.map[key]).ok

\* C16: a proxy call with a positional or keyword argument that cannot be
\* encoded fails at once with the encoder's failure, which is not
\* MethodCallError; no box is sent for it, the responder never runs for it
\* and no method of the remote object is invoked.
C16_UnencodableArgumentFails ==
    \A i \in Started :
        ~Encodable(i) =>
            /\ call[i].future.st = "failed"
            /\ call[i].future.failure.kind = "ValueError"
            /\ call[i].future.failure.kind # "MethodCallError"
            /\ call[i].by = "encode"
            /\ call[i].boxes = 0
            /\ AsksOnWire(i) = 0
            /\ i \notin outstanding[call[i].caller]
            /\ disp[i].runs = 0
            /\ disp[i].outcome.invoked = << >>

C16_Witness ==
    \E i, j \in Started :
        /\ call[i].attr = "add" /\ call[i].args = <<PyInt(2), Socket>>
        /\ call[i].future.failure.kind = "ValueError"
        /\ call[j].attr = "echo" /\ call[j].kwargs.map = [k \in {"k"} |-> Socket]
        /\ call[j].future.failure.kind = "ValueError"
        /\ disp[i].runs = 0 /\ disp[j].runs = 0

\* What was received with every absent argument replaced by an empty one.
Filled(received) ==
    [received EXCEPT !.args = Present(received.args.val),
                     !.kwargs = Present(received.kwargs.val)]

\* C17: a dispatch whose args is absent invokes the method with no positional
\* arguments, one whose kwargs is absent invokes it with the extras only, and
\* for each field, whatever the other field is, the run ends as the run with
\* that field present and empty ends, the invocation made included.
C17_AbsentIsEmpty ==
    \A i \in Dispatched :
        /\ disp[i].outcome = respond(disp[i].callee, Filled(disp[i].received))
        /\ i \in Invoked =>
               /\ ~disp[i].received.args.present =>
                      disp[i].outcome.invoked[1].args = << >>
               /\ ~disp[i].received.kwargs.present =>
                      disp[i].outcome.invoked[1].kwargs =
                          [key \in DOMAIN ExtrasOf(disp[i].received.name) |->
                              get_nested_attr(ProtocolOf(disp[i].callee),
                                  ExtrasOf(disp[i].received.name)[key]).val]

C17_Witness ==
    \E i, j \in Invoked :
        /\ disp[i].received.name = "ctx" /\ disp[j].received.name = "ctx"
        /\ ~disp[i].received.args.present
        /\ ~disp[i].received.kwargs.present
        /\ disp[j].received.args = Present(<< >>)
        /\ disp[j].received.kwargs = Present(EmptyDict)
        /\ disp[i].outcome = disp[j].outcome
        /\ disp[i].outcome.kind = "response"
        /\ DOMAIN disp[i].outcome.invoked[1].kwargs = {"target", "caller_id"}

\* The extras of the name of a dispatch all resolve on the protocol that
\* runs it.
ExtrasResolve(i) ==
    \A key \in DOMAIN ExtrasOf(disp[i].received.name) :
        get_nested_attr(ProtocolOf(disp[i].callee),
                        ExtrasOf(disp[i].received.name)[key]).ok

\* C18 (as stated): every dispatch of a name that is declared and that the
\* exposed object defines invokes the method exactly once; a dispatch that
\* fails with "Non-serializable result" has invoked it once, a dispatch of a
\* name that is not declared has invoked nothing.
C18_InvokedExactlyOnce ==
    \A i \in Dispatched :
        /\ disp[i].received.name \in Declared \cap ObjectMethods =>
               Len(disp[i].outcome.invoked) = 1
        /\ (/\ disp[i].outcome.kind = "MethodCallError"
            /\ disp[i].outcome.msg = NonSerializableMessage) =>
               Len(disp[i].outcome.invoked) = 1
        /\ disp[i].received.name \notin Declared =>
               Len(disp[i].outcome.invoked) = 0

\* C18 (amended): a dispatch of a declared and defined name whose extras all
\* resolve invokes the method exactly once, with the resolved extras among
\* its keyword arguments; when an extra does not resolve the method is not
\* invoked; a dispatch that fails with "Non-serializable result" has invoked
\* the method once and carries what it returned; a dispatch of a name that
\* is not declared has invoked nothing and looked nothing up on the object.
C18_InvokedOnceWhenExtrasResolve ==
    \A i \in Dispatched :
        /\ (disp[i].received.name \in Declared \cap ObjectMethods
                /\ ExtrasResolve(i)) =>
               /\ Len(disp[i].outcome.invoked) = 1
               /\ disp[i].outcome.invoked[1].name = disp[i].received.name
               /\ \A key \in DOMAIN ExtrasOf(disp[i].received.name) :
                      disp[i].outcome.invoked[1].kwargs[key] =
                          get_nested_attr(ProtocolOf(disp[i].callee),
                              ExtrasOf(disp[i].received.name)[key]).val
        /\ (disp[i].received.name \in Declared /\ ~ExtrasResolve(i)) =>
               Len(disp[i].outcome.invoked) = 0
        /\ (/\ disp[i].outcome.kind = "MethodCallError"
            /\ disp[i].outcome.msg = NonSerializableMessage) =>
               /\ Len(disp[i].outcome.invoked) = 1
               /\ disp[i].outcome.result = Returned(i).val
        /\ disp[i].received.name \notin Declared =>
               /\ Len(disp[i].outcome.invoked) = 0
               /\ disp[i].outcome.looked = << >>

C18_Witness ==
    \E i, j \in Dispatched :
        /\ disp[i].received.name = "bad"
        /\ disp[i].outcome.msg = NonSerializableMessage
        /\ Len(disp[i].outcome.invoked) = 1
        /\ disp[j].received.name = "lost"
        /\ disp[j].outcome.exc = "AttributeError"
        /\ Len(disp[j].outcome.invoked) = 0

\* The names of a path in the order they are written: the pieces between
\* its dots, without the empty pieces.
NamesOf(path) ==
    LET RECURSIVE names(_)
        names(pieces) ==
            IF pieces = << >> THEN << >>
            ELSE IF Head(pieces) = << >>
                 THEN names(Tail(pieces))
                 ELSE <<Head(pieces)>> \o names(Tail(pieces))
    IN  names(split(path))

\* C19: get_nested_attr(obj, path) is obj itself for the path "." and for
\* the empty path, and for a path written ".some.nested.attr" or
\* "some.nested.attr" it is what getattr gives along the names of the path,
\* taken from left to right.
C19_GetNestedAttrFollowsPath ==
    probe.done =>
        /\ probe.path \in {S_dot, S_empty} =>
               probe.result = [ok |-> TRUE, val |-> probe.obj]
        /\ probe.result = follow(probe.obj, NamesOf(probe.path))

====
